---- MODULE Spec2Model ----
(***************************************************************************)
(* Incremental embedding index of khoj: TextEmbeddings.update_embeddings   *)
(* (src/src/khoj/processor/text_to_jsonl.py) run against the embedding     *)
(* store, and the pure helpers of the same class.                          *)
(***************************************************************************)
EXTENDS Integers, Sequences, FiniteSets, TLC

VARIABLES
    deployment, \* the owners and content types of this installation, and
                \* whether its Embeddings table enforces unique hashes
    store,      \* rows of the Embeddings table
    dates,      \* rows of the EmbeddingsDates table
    runs,       \* per runner: the position and locals of its update_embeddings call
    chunker,    \* a call of split_entries_by_max_tokens: its arguments and its result
    marker,     \* a call of mark_entries_for_update: its arguments, locals and result
    migration   \* a call of migrate_processor_conversation_schema and the config file

vars == <<deployment, store, dates, runs, chunker, marker, migration>>

----------------------------------------------------------------------------
(* Bounds of the model *)

\* length of the current_entries list of one call
MaxEntries == 2
\* split_entries_by_max_tokens: characters of a compiled text and of a heading,
\* entries of one call, largest max_tokens and max_word_length
MaxCompiledLen == 3
MaxHeadingLen == 2
MaxChunkerEntries == 2
MaxMaxTokens == 2
MaxMaxWordLength == 2
\* mark_entries_for_update: length of the current and of the previous list
MaxMarkEntries == 2
\* length of the current_entries list of a call that runs beside another call
MaxConcurrentEntries == 2

(* Program constants *)

\* grouper(zipped_vals, min(200, num_items)): the batch size, scaled down
\* from 200 so that a file with more new hashes than one batch occurs
BatchSize == 1
\* heading=entry.heading[:1000]
HeadingFieldMax == 1000
\* snipped_heading = entry.heading[-100:]
HeadingSnip == 100

----------------------------------------------------------------------------
(* Values the inputs are drawn from *)

Users == {"u1", "u2"}
FileTypes == {"org", "markdown"}
Files == {"f1", "f2"}
Texts == {"a", "b"}

\* deletion_filenames=None; a value outside SUBSET Files
None == {"None"}

\* The deployments explored: two owners sharing one content type, or one
\* owner with two content types.  Their Embeddings table accepts any row:
\* what keeps the hashes unique there is update_embeddings alone.
Deployments ==
    { [users |-> Users, file_types |-> {"org"}, unique |-> FALSE],
      [users |-> {"u1"}, file_types |-> FileTypes, unique |-> FALSE] }

Range(s) == {s[i] : i \in DOMAIN s}

Min(a, b) == IF a <= b THEN a ELSE b

SeqsUpTo(S, n) == UNION {[1..k -> S] : k \in 0..n}

\* An Entry of khoj.utils.rawconfig as the source parsers hand it over
Entry(f, t) ==
    [raw |-> "raw " \o t, compiled |-> t, heading |-> <<"h", f>>,
     file |-> f, corpus_id |-> <<f, t>>]

Entries == {Entry(f, t) : f \in Files, t \in Texts}

----------------------------------------------------------------------------
(* split_entries_by_max_tokens.  A text is the sequence of its characters. *)

\* str.split(" "): the pieces between single spaces, empty pieces included
RECURSIVE SplitOnSpace(_)
SplitOnSpace(text) ==
    IF \A i \in DOMAIN text : text[i] # " " THEN <<text>>
    ELSE LET i == CHOOSE k \in DOMAIN text :
                      text[k] = " " /\ \A j \in 1..(k - 1) : text[j] # " "
         IN <<SubSeq(text, 1, i - 1)>> \o SplitOnSpace(SubSeq(text, i + 1, Len(text)))

\* " ".join(words)
RECURSIVE JoinWithSpace(_)
JoinWithSpace(words) ==
    IF words = <<>> THEN <<>>
    ELSE IF Len(words) = 1 THEN words[1]
    ELSE words[1] \o <<" ">> \o JoinWithSpace(Tail(words))

\* text[-n:]
LastChars(text, n) ==
    IF Len(text) <= n THEN text ELSE SubSeq(text, Len(text) - n + 1, Len(text))

\* lines 47-50: the words of the compiled text, empty and over-long ones dropped
CompiledEntryWords(entry, max_word_length) ==
    LET IsWord(word) == word # <<>>
        IsShort(word) == Len(word) <= max_word_length
    IN SelectSeq(SelectSeq(SplitOnSpace(entry.compiled), IsWord), IsShort)

\* range(0, len(compiled_entry_words), max_tokens), as a sequence
ChunkIndexes(n, max_tokens) ==
    [k \in 1..((n + max_tokens - 1) \div max_tokens) |-> (k - 1) * max_tokens]

\* lines 55-63: the compiled text of the chunk starting at chunk_index
CompiledEntryChunk(entry, words, chunk_index, max_tokens) ==
    LET compiled_entry_words_chunk ==
            SubSeq(words, chunk_index + 1, Min(chunk_index + max_tokens, Len(words)))
        compiled_entry_chunk == JoinWithSpace(compiled_entry_words_chunk)
        snipped_heading == LastChars(entry.heading, HeadingSnip)
    IN IF chunk_index > 0
       THEN snipped_heading \o <<".", "\n">> \o compiled_entry_chunk
       ELSE compiled_entry_chunk

\* lines 45-73 for one entry; corpus_id is the uuid4 drawn for it
ChunksOfEntry(entry, corpus_id, max_tokens, max_word_length) ==
    LET words == CompiledEntryWords(entry, max_word_length)
        indexes == ChunkIndexes(Len(words), max_tokens)
    IN [k \in DOMAIN indexes |->
           [compiled |-> CompiledEntryChunk(entry, words, indexes[k], max_tokens),
            raw |-> entry.raw,
            heading |-> entry.heading,
            file |-> entry.file,
            corpus_id |-> corpus_id]]

\* the identifier drawn once, before the loop over the entries
uuid4_once(drawn) == <<"uuid", 1>>

\* uuid.uuid4() for the n-th entry after `drawn` earlier draws: a value no
\* earlier draw returned
uuid4(drawn) == <<"uuid", drawn + 1>>

\* lines 44-75
RECURSIVE split_entries_by_max_tokens(_, _, _, _)
split_entries_by_max_tokens(entries, max_tokens, max_word_length, drawn) ==
    IF entries = <<>> THEN <<>>
    ELSE ChunksOfEntry(Head(entries), uuid4(drawn), max_tokens, max_word_length)
         \o split_entries_by_max_tokens(Tail(entries), max_tokens, max_word_length, drawn + 1)

----------------------------------------------------------------------------
(* Collaborators *)

\* hashlib.md5(bytes(getattr(entry, key), encoding="utf-8")).hexdigest():
\* a fingerprint of the text, distinct texts giving distinct digests
md5(text) == "md5:" \o text

hash_func(key, entry) == md5(entry[key])

\* EmbeddingsModel.embed_documents: one vector per text, order preserving
embed_documents(texts) == [i \in DOMAIN texts |-> <<"vec", texts[i]>>]

\* DateFilter.extract_dates: the dates a raw text mentions
extract_dates(raw) == IF raw = "raw a" THEN {"2021-02-02"} ELSE {}

----------------------------------------------------------------------------
(* The store adapters (database.adapters.EmbeddingsAdapters) and the       *)
(* Embeddings manager, as update_embeddings calls them.  A deleted         *)
(* Embeddings row takes its EmbeddingsDates rows with it.                  *)

Ids(rows) == {r.id : r \in rows}

\* Embeddings.objects.bulk_create gives each row a primary key no row has.
\* Keys are opaque: the key chosen is the row's (owner, type, hash) with the
\* smallest copy number not in use.
FreshId(used, user, file_type, hashed_val) ==
    LET n == CHOOSE i \in 1..(Cardinality(used) + 1) :
                 /\ <<user, file_type, hashed_val, i>> \notin used
                 /\ \A j \in 1..(i - 1) : <<user, file_type, hashed_val, j>> \in used
    IN <<user, file_type, hashed_val, n>>

\* Embeddings.objects.bulk_create(rows) raises an IntegrityError, and inserts
\* nothing, when the table enforces the uniqueness of (user, file_type,
\* hashed_value) and a row to insert has the triple of a row in the table
bulk_create_fails(st, rows, unique) ==
    /\ unique
    /\ \E r \in rows, x \in st :
          x.user = r.user /\ x.file_type = r.file_type /\ x.hashed_value = r.hashed_value

Cascade(dt, gone) == {d \in dt : d.embeddings \notin Ids(gone)}

\* EmbeddingsAdapters.delete_all_embeddings(user, file_type)
delete_all_embeddings_rows(st, user, file_type) ==
    {r \in st : r.user = user /\ r.file_type = file_type}

\* the query matching the hashes against file_path instead of hashed_value
filter_existing_entries_wrong_field(st, user, hashes_for_file, file_type) ==
    {r \in st : r.user = user /\ r.file_path \in hashes_for_file /\ r.file_type = file_type}

\* Embeddings.objects.filter(user=user, hashed_value__in=hashes_for_file, file_type=file_type)
filter_existing_entries(st, user, hashes_for_file, file_type) ==
    {r \in st : r.user = user /\ r.hashed_value \in hashes_for_file /\ r.file_type = file_type}

\* EmbeddingsAdapters.get_existing_entry_hashes_by_file(user, file)
get_existing_entry_hashes_by_file(st, user, file) ==
    {r.hashed_value : r \in {x \in st : x.user = user /\ x.file_path = file}}

\* EmbeddingsAdapters.delete_embedding_by_hash(user, hashed_values): the rows it removes
delete_embedding_by_hash_rows(st, user, hashed_values) ==
    {r \in st : r.user = user /\ r.hashed_value \in hashed_values}

\* EmbeddingsAdapters.delete_embedding_by_file(user, file_path): the rows it removes
delete_embedding_by_file_rows(st, user, file_path) ==
    {r \in st : r.user = user /\ r.file_path = file_path}

----------------------------------------------------------------------------
(* Locals of update_embeddings *)

\* keys of hashes_by_file in insertion order: the files by first occurrence
RECURSIVE FilesInOrder(_)
FilesInOrder(entries) ==
    IF entries = <<>> THEN <<>>
    ELSE LET front == FilesInOrder(SubSeq(entries, 1, Len(entries) - 1))
             last == entries[Len(entries)].file
         IN IF last \in Range(front) THEN front ELSE Append(front, last)

\* hashes_by_file.setdefault(entry.file, set()).add(hash_func(key)(entry))
HashesByFile(entries, key) ==
    [f \in {e.file : e \in Range(entries)} |->
        {hash_func(key, e) : e \in {x \in Range(entries) : x.file = f}}]

\* dict(zip(current_entry_hashes, current_entries)): the last entry of a hash wins
HashToCurrentEntries(entries, key) ==
    [h \in {hash_func(key, e) : e \in Range(entries)} |->
        LET idx == {i \in DOMAIN entries : hash_func(key, entries[i]) = h}
            last == CHOOSE i \in idx : \A j \in idx : j <= i
        IN entries[last]]

\* lines 94-99: what the call keeps of current_entries
Hashed(current_entries, key) ==
    [files |-> FilesInOrder(current_entries),
     hashes_by_file |-> HashesByFile(current_entries, key),
     hash_to_current_entries |-> HashToCurrentEntries(current_entries, key)]

\* the file paths of the rows taken for their hashes
ExistingEntryHashes_file_paths(existing_entries) == {entry.file_path : entry \in existing_entries}

\* existing_entry_hashes = set([entry.hashed_value for entry in existing_entries])
ExistingEntryHashes(existing_entries) == {entry.hashed_value : entry \in existing_entries}

\* every hash of the file processed, the existing ones included
HashesToProcess_all(hashes_for_file, existing_entry_hashes) ==
    hashes_for_file

\* hashes_to_process = hashes_for_file - existing_entry_hashes
HashesToProcess(hashes_for_file, existing_entry_hashes) ==
    hashes_for_file \ existing_entry_hashes

\* the row built without the caller's user: it falls to the default owner
NewEmbedding_default_owner(id, user, file_type, hashed_val, entry, embedding) ==
    [id |-> id,
     user |-> "u2",
     embeddings |-> embedding,
     raw |-> entry.raw,
     compiled |-> entry.compiled,
     heading |-> SubSeq(entry.heading, 1, Min(Len(entry.heading), HeadingFieldMax)),
     file_path |-> entry.file,
     file_type |-> file_type,
     hashed_value |-> hashed_val,
     corpus_id |-> entry.corpus_id]

\* the Embeddings(...) row built for one hash of a batch
NewEmbedding(id, user, file_type, hashed_val, entry, embedding) ==
    [id |-> id,
     user |-> user,
     embeddings |-> embedding,
     raw |-> entry.raw,
     compiled |-> entry.compiled,
     heading |-> SubSeq(entry.heading, 1, Min(Len(entry.heading), HeadingFieldMax)),
     file_path |-> entry.file,
     file_type |-> file_type,
     hashed_value |-> hashed_val,
     corpus_id |-> entry.corpus_id]

\* EmbeddingsDates(date=date, embeddings=embedding) for the rows of a batch
DatesToCreate(new_embeddings) ==
    UNION {{[date |-> d, embeddings |-> e.id] : d \in extract_dates(e.raw)} : e \in new_embeddings}

\* the difference taken the wrong way round
ToDeleteEntryHashes_swapped(existing_entry_hashes, hashes_for_file) ==
    hashes_for_file \ existing_entry_hashes

\* to_delete_entry_hashes = set(existing_entry_hashes) - hashes_by_file[file]
ToDeleteEntryHashes(existing_entry_hashes, hashes_for_file) ==
    existing_entry_hashes \ hashes_for_file

----------------------------------------------------------------------------
(* update_embeddings, one step per store access.  A step maps the tables   *)
(* and the locals of the call to their next values.                        *)

World(st, dt, r) == [store |-> st, dates |-> dt, run |-> r]

\* where the call continues once the creation loop over the files is over
PcAfterIdentify(r) ==
    IF Len(r.files) > 0 THEN "removed"
    ELSE IF r.deletion_filenames # None /\ r.deletion_filenames # {} THEN "deleting"
    ELSE "done"

\* where the call continues once the stale-hash loop is over
PcAfterRemoved(r) ==
    IF r.deletion_filenames # None /\ r.deletion_filenames # {} THEN "deleting" ELSE "done"

\* lines 94-105: hash the current entries, then wipe the content type on regenerate
BeginStep(st, dt, user, file_type, hashed, deletion_filenames, regenerate, ghost) ==
    LET wiped == IF regenerate THEN delete_all_embeddings_rows(st, user, file_type) ELSE {}
        r0 == [pc |-> "identify",
               user |-> user,
               file_type |-> file_type,
               key |-> "compiled",
               deletion_filenames |-> deletion_filenames,
               regenerate |-> regenerate,
               files |-> hashed.files,
               hashes_by_file |-> hashed.hashes_by_file,
               hash_to_current_entries |-> hashed.hash_to_current_entries,
               file_idx |-> 1,
               zipped_vals |-> {},
               batch_size |-> 0,
               new_embeddings |-> {},
               removed_idx |-> 1,
               to_delete_files |-> IF deletion_filenames = None THEN {} ELSE deletion_filenames,
               num_new_embeddings |-> 0,
               num_deleted_embeddings |-> Cardinality(wiped),
               embed_calls |-> <<>>,
               ghost |-> ghost]
        r1 == IF Len(r0.files) > 0 THEN r0 ELSE [r0 EXCEPT !.pc = PcAfterIdentify(r0)]
    IN World(st \ wiped, Cascade(dt, wiped), r1)

\* the creation loop left after its first file
NextFile_first_file_only(r) ==
    [r EXCEPT !.pc = PcAfterIdentify(r)]

\* where the creation loop continues once a file has no batch left
NextFile(r) ==
    IF r.file_idx < Len(r.files)
    THEN [r EXCEPT !.pc = "identify", !.file_idx = r.file_idx + 1]
    ELSE [r EXCEPT !.pc = PcAfterIdentify(r)]

\* lines 109-125: the existing-hash query of one file and the embedding of its new hashes
IdentifyStep(w) ==
    LET r == w.run
        file == r.files[r.file_idx]
        hashes_for_file == r.hashes_by_file[file]
        existing_entries == filter_existing_entries(w.store, r.user, hashes_for_file, r.file_type)
        existing_entry_hashes == ExistingEntryHashes(existing_entries)
        hashes_to_process == HashesToProcess(hashes_for_file, existing_entry_hashes)
        num_items == Cardinality(hashes_to_process)
        r1 == [r EXCEPT !.zipped_vals = hashes_to_process,
                        !.batch_size = Min(BatchSize, num_items),
                        !.embed_calls = Append(r.embed_calls, hashes_to_process)]
    IN World(w.store, w.dates,
             IF num_items > 0 THEN [r1 EXCEPT !.pc = "create"] ELSE NextFile(r1))

\* lines 130-148: one batch of Embeddings rows; batch lists the hashes in the
\* order the set hashes_to_process happens to yield them.  Nothing catches an
\* exception of bulk_create: it ends the call.
CreateStep(w, batch) ==
    LET r == w.run
        batch_embeddings_to_create ==
            {NewEmbedding(FreshId(Ids(w.store), r.user, r.file_type, batch[i]),
                          r.user, r.file_type, batch[i],
                          r.hash_to_current_entries[batch[i]],
                          embed_documents(<<r.hash_to_current_entries[batch[i]][r.key]>>)[1])
                : i \in DOMAIN batch}
    IN IF bulk_create_fails(w.store, batch_embeddings_to_create, deployment.unique)
       THEN World(w.store, w.dates, [r EXCEPT !.pc = "failed"])
       ELSE
       World(w.store \cup batch_embeddings_to_create, w.dates,
             [r EXCEPT !.pc = "create_dates",
                       !.zipped_vals = r.zipped_vals \ Range(batch),
                       !.new_embeddings = batch_embeddings_to_create,
                       !.num_new_embeddings = r.num_new_embeddings + Cardinality(batch_embeddings_to_create)])

\* lines 150-163: the date rows of the batch just created
CreateDatesStep(w) ==
    LET r == w.run
        r1 == [r EXCEPT !.new_embeddings = {}]
    IN World(w.store, w.dates \cup DatesToCreate(r.new_embeddings),
             IF r.zipped_vals # {} THEN [r1 EXCEPT !.pc = "create"] ELSE NextFile(r1))

\* lines 166-170: the stale-hash pass of one file
RemovedStep(w) ==
    LET r == w.run
        file == r.files[r.removed_idx]
        existing_entry_hashes == get_existing_entry_hashes_by_file(w.store, r.user, file)
        to_delete_entry_hashes == ToDeleteEntryHashes(existing_entry_hashes, r.hashes_by_file[file])
        gone == delete_embedding_by_hash_rows(w.store, r.user, to_delete_entry_hashes)
        r1 == [r EXCEPT !.num_deleted_embeddings =
                            r.num_deleted_embeddings + Cardinality(to_delete_entry_hashes)]
    IN World(w.store \ gone, Cascade(w.dates, gone),
             IF r.removed_idx < Len(r.files)
             THEN [r1 EXCEPT !.removed_idx = r.removed_idx + 1]
             ELSE [r1 EXCEPT !.pc = PcAfterRemoved(r1)])

\* the deletion of a file path whose deleted_count is dropped
DeletingStep_uncounted(w, file_path) ==
    LET r == w.run
        gone == delete_embedding_by_file_rows(w.store, r.user, file_path)
        left == r.to_delete_files \ {file_path}
    IN World(w.store \ gone, Cascade(w.dates, gone),
             [r EXCEPT !.to_delete_files = left,
                       !.pc = IF left = {} THEN "done" ELSE "deleting"])

\* lines 173-176: the deletion of one file path of deletion_filenames
DeletingStep(w, file_path) ==
    LET r == w.run
        gone == delete_embedding_by_file_rows(w.store, r.user, file_path)
        deleted_count == Cardinality(gone)
        left == r.to_delete_files \ {file_path}
    IN World(w.store \ gone, Cascade(w.dates, gone),
             [r EXCEPT !.to_delete_files = left,
                       !.num_deleted_embeddings = r.num_deleted_embeddings + deleted_count,
                       !.pc = IF left = {} THEN "done" ELSE "deleting"])

----------------------------------------------------------------------------
(* The calls of update_embeddings *)

Idle == [pc |-> "idle"]

\* no call of split_entries_by_max_tokens is under way
NoChunker == [pc |-> "none"]

\* no call of mark_entries_for_update is under way
NoMarker == [pc |-> "none"]

\* no call of migrate_processor_conversation_schema is under way
NoMigration == [pc |-> "none"]

Working == {"identify", "create", "create_dates", "removed", "deleting"}

\* What is remembered about a call for the properties below: the tables when
\* it began, whether it repeats the completed call before it, and whether it
\* retries an interrupted call (base: the tables when the first attempt began)
FirstCall(st, dt) ==
    [store0 |-> st, dates0 |-> dt, is_rerun |-> FALSE, is_retry |-> FALSE,
     base_store |-> st, base_dates |-> dt]

SecondCall(prev, st, dt) ==
    [store0 |-> st, dates0 |-> dt,
     is_rerun |-> prev.pc = "done",
     is_retry |-> prev.pc = "interrupted",
     base_store |-> IF prev.pc = "interrupted" THEN prev.ghost.base_store ELSE st,
     base_dates |-> IF prev.pc = "interrupted" THEN prev.ghost.base_dates ELSE dt]

Set(p, w) ==
    /\ store' = w.store
    /\ dates' = w.dates
    /\ runs' = [runs EXCEPT ![p] = w.run]
    /\ UNCHANGED <<deployment, chunker, marker, migration>>

Here(p) == World(store, dates, runs[p])

\* the orders in which a set can be read out
Orders(S) == {s \in [1..Cardinality(S) -> S] : Range(s) = S}

\* the arguments a caller passes for deletion_filenames
DeletionFilenames == {None} \cup (SUBSET Files \ {{}})

\* update_embeddings is called: lines 94-105
Begin(p) ==
    /\ runs[p].pc = "idle"
    /\ \E user \in deployment.users, file_type \in deployment.file_types,
          current_entries \in SeqsUpTo(Entries, MaxEntries),
          deletion_filenames \in DeletionFilenames,
          regenerate \in BOOLEAN :
            Set(p, BeginStep(store, dates, user, file_type, Hashed(current_entries, "compiled"),
                             deletion_filenames, regenerate, FirstCall(store, dates)))

\* update_embeddings is called again with the arguments of the call that
\* just returned: lines 94-105
Rerun(p) ==
    /\ runs[p].pc = "done"
    /\ ~runs[p].ghost.is_rerun
    /\ ~runs[p].regenerate
    /\ runs[p].deletion_filenames = None
    /\ Set(p, BeginStep(store, dates, runs[p].user, runs[p].file_type,
                        [files |-> runs[p].files,
                         hashes_by_file |-> runs[p].hashes_by_file,
                         hash_to_current_entries |-> runs[p].hash_to_current_entries],
                        runs[p].deletion_filenames, runs[p].regenerate,
                        SecondCall(runs[p], store, dates)))

\* lines 109-125
Identify(p) ==
    /\ runs[p].pc = "identify"
    /\ Set(p, IdentifyStep(Here(p)))

\* lines 127-148: grouper hands out the next batch
Create(p) ==
    /\ runs[p].pc = "create"
    /\ \E hashes \in SUBSET runs[p].zipped_vals :
          /\ Cardinality(hashes) = Min(runs[p].batch_size, Cardinality(runs[p].zipped_vals))
          /\ \E batch \in Orders(hashes) : Set(p, CreateStep(Here(p), batch))

\* lines 150-163
CreateDates(p) ==
    /\ runs[p].pc = "create_dates"
    /\ Set(p, CreateDatesStep(Here(p)))

\* lines 165-170
Removed(p) ==
    /\ runs[p].pc = "removed"
    /\ Set(p, RemovedStep(Here(p)))

\* lines 172-176
Deleting(p) ==
    /\ runs[p].pc = "deleting"
    /\ \E file_path \in runs[p].to_delete_files : Set(p, DeletingStep(Here(p), file_path))

\* line 178: the call has returned and its locals are gone
Return(p) ==
    /\ runs[p].pc = "done"
    /\ runs' = [runs EXCEPT ![p] = Idle]
    /\ UNCHANGED <<deployment, store, dates, chunker, marker, migration>>

Init ==
    /\ deployment \in Deployments
    /\ store = {}
    /\ dates = {}
    /\ runs = [p \in {1} |-> Idle]
    /\ chunker = NoChunker
    /\ marker = NoMarker
    /\ migration = NoMigration

Next ==
    \E p \in DOMAIN runs :
        \/ Begin(p)
        \/ Rerun(p)
        \/ Identify(p)
        \/ Create(p)
        \/ CreateDates(p)
        \/ Removed(p)
        \/ Deleting(p)
        \/ Return(p)

Spec == Init /\ [][Next]_vars

----------------------------------------------------------------------------
(* Interrupted calls: the process running update_embeddings dies between   *)
(* two store accesses, what it wrote stays, and the caller calls again.    *)

Interrupt(p) ==
    /\ runs[p].pc \in Working
    /\ runs' = [runs EXCEPT ![p].pc = "interrupted"]
    /\ UNCHANGED <<deployment, store, dates, chunker, marker, migration>>

\* update_embeddings is called again with the arguments of the interrupted call
Retry(p) ==
    /\ runs[p].pc = "interrupted"
    /\ Set(p, BeginStep(store, dates, runs[p].user, runs[p].file_type,
                        [files |-> runs[p].files,
                         hashes_by_file |-> runs[p].hashes_by_file,
                         hash_to_current_entries |-> runs[p].hash_to_current_entries],
                        runs[p].deletion_filenames, runs[p].regenerate,
                        SecondCall(runs[p], store, dates)))

\* the interrupted call is not retried
Abandon(p) ==
    /\ runs[p].pc = "interrupted"
    /\ runs' = [runs EXCEPT ![p] = Idle]
    /\ UNCHANGED <<deployment, store, dates, chunker, marker, migration>>

InitInterrupt ==
    /\ deployment = [users |-> {"u1"}, file_types |-> {"org"}, unique |-> FALSE]
    /\ store = {}
    /\ dates = {}
    /\ runs = [p \in {1} |-> Idle]
    /\ chunker = NoChunker
    /\ marker = NoMarker
    /\ migration = NoMigration

NextInterrupt ==
    \E p \in DOMAIN runs :
        \/ Begin(p)
        \/ Identify(p)
        \/ Create(p)
        \/ CreateDates(p)
        \/ Removed(p)
        \/ Deleting(p)
        \/ Return(p)
        \/ Interrupt(p)
        \/ Retry(p)
        \/ Abandon(p)

SpecInterrupt == InitInterrupt /\ [][NextInterrupt]_vars

\* The call run to its end without interruption; where the code reads a set
\* in an arbitrary order one order is taken, the tables at the end being the
\* same for all of them up to primary keys.
RECURSIVE Finish(_)
Finish(w) ==
    IF w.run.pc = "identify" THEN Finish(IdentifyStep(w))
    ELSE IF w.run.pc = "create"
         THEN LET n == Min(w.run.batch_size, Cardinality(w.run.zipped_vals))
                  hashes == CHOOSE h \in SUBSET w.run.zipped_vals : Cardinality(h) = n
              IN Finish(CreateStep(w, CHOOSE b \in Orders(hashes) : TRUE))
    ELSE IF w.run.pc = "create_dates" THEN Finish(CreateDatesStep(w))
    ELSE IF w.run.pc = "removed" THEN Finish(RemovedStep(w))
    ELSE IF w.run.pc = "deleting"
         THEN Finish(DeletingStep(w, CHOOSE f \in w.run.to_delete_files : TRUE))
    ELSE w

Uninterrupted(r) ==
    Finish(BeginStep(r.ghost.base_store, r.ghost.base_dates, r.user, r.file_type,
                     [files |-> r.files,
                      hashes_by_file |-> r.hashes_by_file,
                      hash_to_current_entries |-> r.hash_to_current_entries],
                     r.deletion_filenames, r.regenerate,
                     FirstCall(r.ghost.base_store, r.ghost.base_dates)))

\* the tables without their primary keys: each row with its dates
Content(st, dt) ==
    {[user |-> r.user, embeddings |-> r.embeddings, raw |-> r.raw, compiled |-> r.compiled,
      heading |-> r.heading, file_path |-> r.file_path, file_type |-> r.file_type,
      hashed_value |-> r.hashed_value, corpus_id |-> r.corpus_id,
      dates |-> {d.date : d \in {x \in dt : x.embeddings = r.id}}] : r \in st}

----------------------------------------------------------------------------
(* Two callers: update_embeddings takes no lock, so two calls may run at    *)
(* the same time, their store accesses interleaved.  The Embeddings table   *)
(* of a deployment may or may not enforce the uniqueness of hashes: each    *)
(* case has its specification.                                              *)

Runners == {1, 2}

\* both callers index the same file
ConcurrentEntries == {e \in Entries : e.file = "f1"}

\* the calls for the same owner and content type under way when p is called;
\* what is remembered about a call here is whether it ran while another did
Overlaps(p, user, file_type) ==
    {q \in DOMAIN runs \ {p} :
        runs[q].pc \in Working /\ runs[q].user = user /\ runs[q].file_type = file_type}

\* update_embeddings is called by p, incrementally, while the other runner may
\* be in a call of its own: lines 94-105.  The callers being alike, the one that
\* calls while no call is under way is taken to be the first.
BeginConcurrent(p) ==
    /\ runs[p].pc = "idle"
    /\ p = 1 \/ runs[1].pc \in Working
    /\ \E user \in deployment.users, file_type \in deployment.file_types,
          current_entries \in SeqsUpTo(ConcurrentEntries, MaxConcurrentEntries) :
            LET w == BeginStep(store, dates, user, file_type, Hashed(current_entries, "compiled"),
                               None, FALSE, [overlapped |-> FALSE])
                others == Overlaps(p, user, file_type)
            IN /\ store' = w.store
               /\ dates' = w.dates
               /\ runs' = [q \in DOMAIN runs |->
                             IF q = p THEN [w.run EXCEPT !.ghost.overlapped = others # {}]
                             ELSE IF q \in others THEN [runs[q] EXCEPT !.ghost.overlapped = TRUE]
                             ELSE runs[q]]
               /\ UNCHANGED <<deployment, chunker, marker, migration>>

\* the IntegrityError of bulk_create leaves update_embeddings: the call is over
Raise(p) ==
    /\ runs[p].pc = "failed"
    /\ runs' = [runs EXCEPT ![p] = Idle]
    /\ UNCHANGED <<deployment, store, dates, chunker, marker, migration>>

InitConcurrent ==
    /\ deployment = [users |-> {"u1"}, file_types |-> {"org"}, unique |-> FALSE]
    /\ store = {}
    /\ dates = {}
    /\ runs = [p \in Runners |-> Idle]
    /\ chunker = NoChunker
    /\ marker = NoMarker
    /\ migration = NoMigration

NextConcurrent ==
    \E p \in DOMAIN runs :
        \/ BeginConcurrent(p)
        \/ Identify(p)
        \/ Create(p)
        \/ CreateDates(p)
        \/ Removed(p)
        \/ Return(p)

SpecConcurrent == InitConcurrent /\ [][NextConcurrent]_vars

InitConstrained ==
    /\ deployment = [users |-> {"u1"}, file_types |-> {"org"}, unique |-> TRUE]
    /\ store = {}
    /\ dates = {}
    /\ runs = [p \in Runners |-> Idle]
    /\ chunker = NoChunker
    /\ marker = NoMarker
    /\ migration = NoMigration

NextConstrained ==
    \/ NextConcurrent
    \/ \E p \in DOMAIN runs : Raise(p)

SpecConstrained == InitConstrained /\ [][NextConstrained]_vars

----------------------------------------------------------------------------
(* Calls of split_entries_by_max_tokens *)

CompiledTexts == SeqsUpTo({"a", " "}, MaxCompiledLen)

Headings == SeqsUpTo({"h", " "}, MaxHeadingLen)

ChunkerEntry(compiled, heading) ==
    [raw |-> compiled, compiled |-> compiled, heading |-> heading,
     file |-> "f1", corpus_id |-> <<>>]

ChunkerEntries == {ChunkerEntry(c, h) : c \in CompiledTexts, h \in Headings}

InitChunker ==
    /\ deployment = [users |-> {"u1"}, file_types |-> {"org"}, unique |-> FALSE]
    /\ store = {}
    /\ dates = {}
    /\ runs = [p \in {1} |-> Idle]
    /\ \E entries \in SeqsUpTo(ChunkerEntries, MaxChunkerEntries),
          max_tokens \in 1..MaxMaxTokens, max_word_length \in 1..MaxMaxWordLength :
            chunker = [pc |-> "called", entries |-> entries, max_tokens |-> max_tokens,
                       max_word_length |-> max_word_length, chunked_entries |-> <<>>]
    /\ marker = NoMarker
    /\ migration = NoMigration

\* the call runs and returns chunked_entries
SplitEntries ==
    /\ chunker.pc = "called"
    /\ chunker' = [chunker EXCEPT
                      !.pc = "returned",
                      !.chunked_entries =
                          split_entries_by_max_tokens(chunker.entries, chunker.max_tokens,
                                                      chunker.max_word_length, 0)]
    /\ UNCHANGED <<deployment, store, dates, runs, marker, migration>>

NextChunker == SplitEntries

SpecChunker == InitChunker /\ [][NextChunker]_vars

\* C5: every entry split_entries_by_max_tokens returns has a compiled text of
\* at most max_tokens space-delimited words, none longer than max_word_length.
C5_ChunkBound ==
    chunker.pc = "returned" =>
        \A i \in DOMAIN chunker.chunked_entries :
            LET words == SplitOnSpace(chunker.chunked_entries[i].compiled)
            IN /\ Len(words) <= chunker.max_tokens
               /\ \A j \in DOMAIN words : Len(words[j]) <= chunker.max_word_length

----------------------------------------------------------------------------
(* Properties of update_embeddings *)

Done(p) == runs[p].pc = "done"

\* runner p takes the step
Steps(p) == runs'[p] # runs[p]

RowsOf(st, user) == {r \in st : r.user = user}

RowsOfType(st, user, file_type) == {r \in st : r.user = user /\ r.file_type = file_type}

RowsAt(st, user, file_path) == {r \in st : r.user = user /\ r.file_path = file_path}

Hashes(rows) == {r.hashed_value : r \in rows}

CurrentHashes(r) == DOMAIN r.hash_to_current_entries

\* the hashes passed to the embedding model so far in the call
Embedded(r) == UNION Range(r.embed_calls)

\* C1: a call that repeats the call before it, with regenerate=False and no
\* deletion_filenames, returns (0, 0) and leaves the store as it found it.
C1_SecondRunIsNoop ==
    \A p \in DOMAIN runs :
        (Done(p) /\ runs[p].ghost.is_rerun /\ ~runs[p].regenerate /\ runs[p].deletion_filenames = None)
            => /\ runs[p].num_new_embeddings = 0
               /\ runs[p].num_deleted_embeddings = 0
               /\ store = runs[p].ghost.store0

\* C2: the store never holds two rows with the same owner, content type and
\* content hash.
C2_UniquePerOwnerTypeHash ==
    \A r1, r2 \in store :
        (r1.user = r2.user /\ r1.file_type = r2.file_type /\ r1.hashed_value = r2.hashed_value)
            => r1 = r2

\* a call has returned that found one of its hashes stored under another file
\* path, created rows and deleted rows
C2_Witness ==
    \E p \in DOMAIN runs :
        /\ Done(p)
        /\ runs[p].num_new_embeddings > 0
        /\ runs[p].num_deleted_embeddings > 0
        /\ \E r \in RowsOfType(runs[p].ghost.store0, runs[p].user, runs[p].file_type) :
              /\ r.hashed_value \in CurrentHashes(runs[p])
              /\ r.file_path # runs[p].hash_to_current_entries[r.hashed_value].file
        /\ store # {}

\* C3: a hash goes to the embedding model only if the store has no row of it
\* for the owner and content type when its file is processed, and no hash goes
\* to the model twice in one call.
C3_EmbedOnlyNewOnce ==
    [][\A p \in DOMAIN runs :
          (runs[p].pc = "identify" /\ Steps(p) /\ runs'[p].pc # "interrupted")
          => LET call == runs'[p].embed_calls[Len(runs'[p].embed_calls)]
             IN /\ Len(runs'[p].embed_calls) = Len(runs[p].embed_calls) + 1
                /\ Hashes(RowsOfType(store, runs[p].user, runs[p].file_type)) \cap call = {}
                /\ Embedded(runs[p]) \cap call = {}]_vars

\* a call has returned in which one text occurs in two files and went to the
\* model for the first of them only
C3_Witness ==
    \E p \in DOMAIN runs :
        /\ Done(p)
        /\ Len(runs[p].files) = 2
        /\ runs[p].hashes_by_file[runs[p].files[1]] \cap runs[p].hashes_by_file[runs[p].files[2]] # {}
        /\ runs[p].embed_calls[1] \cap runs[p].hashes_by_file[runs[p].files[2]] # {}
        /\ runs[p].num_new_embeddings = Cardinality(Embedded(runs[p]))

\* C4: the stale-hash pass of a file and the deletion of a file path leave the
\* rows of every other file path in the store, unchanged.
C4_DeletionStaysInFile ==
    [][\A p \in DOMAIN runs :
          /\ (runs[p].pc = "removed" /\ Steps(p))
                => \A r \in store : r.file_path # runs[p].files[runs[p].removed_idx] => r \in store'
          /\ (runs[p].pc = "deleting" /\ Steps(p))
                => \A r \in store :
                      r.file_path \notin (runs[p].to_delete_files \ runs'[p].to_delete_files)
                          => r \in store']_vars

\* the owner whose call takes the step
StepUser(p) == IF runs'[p].pc = "idle" THEN runs[p].user ELSE runs'[p].user

DatesOfRows(dt, rows) == {d \in dt : d.embeddings \in Ids(rows)}

\* C6: no step of a call for one owner creates, deletes or changes a row (or a
\* date row) of another owner; an owner without rows stays without rows while
\* others index.
C6_OwnerIsolation ==
    [][\A p \in DOMAIN runs :
          Steps(p) =>
              \A other \in Users \ {StepUser(p)} :
                  /\ RowsOf(store', other) = RowsOf(store, other)
                  /\ DatesOfRows(dates', RowsOf(store', other)) = DatesOfRows(dates, RowsOf(store, other))
                  /\ RowsOf(store, other) = {} => RowsOf(store', other) = {}]_vars

\* a call has deleted a row of its owner while another owner holds a row with
\* the same hash under the same file path, and a third party's view is empty
C6_Witness ==
    \E p \in DOMAIN runs :
        /\ Done(p)
        /\ \E gone \in RowsOf(runs[p].ghost.store0, runs[p].user) \ store :
              \E r \in store :
                  /\ r.user # runs[p].user
                  /\ r.hashed_value = gone.hashed_value
                  /\ r.file_path = gone.file_path
                  /\ r \in runs[p].ghost.store0

\* file g is stored for the owner exactly as the current entries have it
IndexedAsIs(r, g) ==
    /\ Hashes(RowsAt(r.ghost.store0, r.user, g)) = r.hashes_by_file[g]
    /\ \A x \in RowsAt(r.ghost.store0, r.user, g) : x.file_type = r.file_type

\* the call re-indexes file f, stored by an earlier call of the same content
\* type, with the text of hash old replaced by a text of hash new that the
\* store does not have; its other files are unchanged
C8_Scenario(r, f, old, new) ==
    /\ ~r.regenerate
    /\ r.deletion_filenames = None
    /\ old # new
    /\ new \notin Hashes(RowsOfType(r.ghost.store0, r.user, r.file_type))
    /\ r.hashes_by_file[f] = (Hashes(RowsAt(r.ghost.store0, r.user, f)) \ {old}) \cup {new}
    /\ \A x \in RowsAt(r.ghost.store0, r.user, f) : x.file_type = r.file_type
    /\ \A g \in Range(r.files) \ {f} : IndexedAsIs(r, g)

\* C8: re-indexing a file with one text changed returns (1, 1): a new row for
\* the new hash, the row of the old hash gone, every other row as it was.
C8_EditIsInsertPlusDelete ==
    \A p \in DOMAIN runs :
        Done(p) =>
            \A f \in Range(runs[p].files) :
                \A old \in Hashes(RowsAt(runs[p].ghost.store0, runs[p].user, f)) :
                    \A new \in runs[p].hashes_by_file[f] :
                        C8_Scenario(runs[p], f, old, new) =>
                            /\ runs[p].num_new_embeddings = 1
                            /\ runs[p].num_deleted_embeddings = 1
                            /\ \E r \in store \ runs[p].ghost.store0 :
                                  /\ r.user = runs[p].user
                                  /\ r.file_type = runs[p].file_type
                                  /\ r.hashed_value = new
                                  /\ r.file_path = f
                                  /\ r.id \notin Ids(runs[p].ghost.store0)
                            /\ old \notin Hashes(RowsOf(store, runs[p].user))
                            /\ \A r \in store : r.id \in Ids(runs[p].ghost.store0) => r \in runs[p].ghost.store0
                            /\ \A r \in RowsOfType(runs[p].ghost.store0, runs[p].user, runs[p].file_type) :
                                  r.hashed_value # old => r \in store

\* such a call has returned, for a file that kept another text
C8_Witness ==
    \E p \in DOMAIN runs :
        /\ Done(p)
        /\ \E f \in Range(runs[p].files) :
              \E old \in Hashes(RowsAt(runs[p].ghost.store0, runs[p].user, f)) :
                  \E new \in runs[p].hashes_by_file[f] : C8_Scenario(runs[p], f, old, new)
        /\ store \cap runs[p].ghost.store0 # {}

\* the current entries create nothing and leave nothing stale
C9_Unchanged(r) ==
    /\ ~r.regenerate
    /\ \A g \in Range(r.files) : IndexedAsIs(r, g)

DeletedByFilenames(r) ==
    UNION {RowsAt(r.ghost.store0, r.user, f) : f \in r.deletion_filenames}

\* C9: the deletion of a file path removes every row of the owner with that
\* file path, whatever its hash, leaves all other rows alone and adds their
\* number to num_deleted; a call that only deletes returns the number of rows
\* the paths had before the call.
C9_DeleteByFilename ==
    /\ [](\A p \in DOMAIN runs :
            (Done(p) /\ runs[p].deletion_filenames # None) =>
                /\ \A f \in runs[p].deletion_filenames : RowsAt(store, runs[p].user, f) = {}
                /\ C9_Unchanged(runs[p]) =>
                      /\ runs[p].num_new_embeddings = 0
                      /\ runs[p].num_deleted_embeddings = Cardinality(DeletedByFilenames(runs[p]))
                      /\ store = runs[p].ghost.store0 \ DeletedByFilenames(runs[p]))
    /\ [][\A p \in DOMAIN runs :
            (runs[p].pc = "deleting" /\ Steps(p) /\ runs'[p].pc # "interrupted") =>
                \E file_path \in runs[p].to_delete_files :
                    /\ runs'[p].to_delete_files = runs[p].to_delete_files \ {file_path}
                    /\ store' = store \ RowsAt(store, runs[p].user, file_path)
                    /\ runs'[p].num_deleted_embeddings =
                          runs[p].num_deleted_embeddings
                              + Cardinality(RowsAt(store, runs[p].user, file_path))]_vars

\* a call with one deletion file name has returned; the path had rows of
\* different hashes, another path had rows, and those are still there
C9_Witness ==
    \E p \in DOMAIN runs :
        /\ Done(p)
        /\ runs[p].deletion_filenames # None
        /\ Cardinality(runs[p].deletion_filenames) = 1
        /\ C9_Unchanged(runs[p])
        /\ Cardinality(DeletedByFilenames(runs[p])) = 2
        /\ runs[p].num_deleted_embeddings = 2
        /\ RowsOf(store, runs[p].user) # {}

\* C10: a call with regenerate=True (and no deletion_filenames) on a content
\* type with N rows of the owner and M distinct current hashes embeds all M
\* hashes and returns (M, N).
C10_RegenerateCounts ==
    \A p \in DOMAIN runs :
        (Done(p) /\ runs[p].regenerate /\ runs[p].deletion_filenames = None) =>
            /\ Embedded(runs[p]) = CurrentHashes(runs[p])
            /\ runs[p].num_new_embeddings = Cardinality(CurrentHashes(runs[p]))
            /\ runs[p].num_deleted_embeddings =
                  Cardinality(RowsOfType(runs[p].ghost.store0, runs[p].user, runs[p].file_type))

\* C7: when an interrupted incremental call is called again with the same
\* arguments, the tables end as an uninterrupted call would have left them, and
\* no hash inserted before the interruption goes to the embedding model again.
C7_RetryCompletesTheRun ==
    \A p \in DOMAIN runs :
        (Done(p) /\ runs[p].ghost.is_retry /\ ~runs[p].regenerate) =>
            /\ Content(store, dates) =
                  LET u == Uninterrupted(runs[p]) IN Content(u.store, u.dates)
            /\ Embedded(runs[p]) \cap
                  (Hashes(RowsOfType(runs[p].ghost.store0, runs[p].user, runs[p].file_type))
                   \ Hashes(RowsOfType(runs[p].ghost.base_store, runs[p].user, runs[p].file_type))) = {}

----------------------------------------------------------------------------
(* mark_entries_for_update: the diff of two entry lists *)

MarkTexts == {"a", "b", "c"}

MarkEntries == {Entry(f, t) : f \in Files, t \in MarkTexts}

\* list(map(TextEmbeddings.hash_func(key), entries))
EntryHashes(entries, key) == [i \in DOMAIN entries |-> hash_func(key, entries[i])]

\* lines 192-196
DeletionEntryHashes(previous_entries, key, deletion_filenames) ==
    IF deletion_filenames # None
    THEN LET InDeletedFile(entry) == entry.file \in deletion_filenames
             deletion_entries == SelectSeq(previous_entries, InDeletedFile)
         IN EntryHashes(deletion_entries, key)
    ELSE <<>>

\* line 203
NewEntryHashes(current_entry_hashes, previous_entry_hashes) ==
    Range(current_entry_hashes) \ Range(previous_entry_hashes)

\* line 205
MarkExistingEntryHashes(current_entry_hashes, previous_entry_hashes) ==
    Range(current_entry_hashes) \cap Range(previous_entry_hashes)

\* every previous hash taken as remaining
RemainingEntryHashes_all_previous(current_entry_hashes, previous_entry_hashes) ==
    Range(previous_entry_hashes)

\* line 207
RemainingEntryHashes(current_entry_hashes, previous_entry_hashes) ==
    Range(previous_entry_hashes) \ Range(current_entry_hashes)

\* line 209
MarkToDeleteEntryHashes(previous_entry_hashes, deletion_entry_hashes) ==
    Range(previous_entry_hashes) \cap Range(deletion_entry_hashes)

\* lines 211-218
PreservingEntryHashes(existing_entry_hashes, remaining_entry_hashes, previous_entry_hashes, deletion_entry_hashes, to_delete_entry_hashes, deletion_filenames) ==
    IF deletion_filenames # None
    THEN IF Len(deletion_entry_hashes) = 0
         THEN existing_entry_hashes \cup remaining_entry_hashes
         ELSE Range(previous_entry_hashes) \ to_delete_entry_hashes
    ELSE existing_entry_hashes

\* list.index(x), counted from 0
Index(list, x) ==
    (CHOOSE i \in DOMAIN list : list[i] = x /\ \A j \in 1..(i - 1) : list[j] # x) - 1

\* sorted(pairs, key=lambda e: e[0]) for pairs of distinct first components
RECURSIVE SortedByFirst(_)
SortedByFirst(pairs) ==
    IF pairs = {} THEN <<>>
    ELSE LET least == CHOOSE x \in pairs : \A y \in pairs : x[1] <= y[1]
         IN <<least>> \o SortedByFirst(pairs \ {least})

\* lines 221-227
NewEntriesSorted(new_entry_hashes, current_entry_hashes, hash_to_current_entries) ==
    LET new_entries ==
            {<<Index(current_entry_hashes, entry_hash), hash_to_current_entries[entry_hash]>> :
                entry_hash \in new_entry_hashes}
        new_entries_sorted == SortedByFirst(new_entries)
    IN [i \in DOMAIN new_entries_sorted |-> <<-1, new_entries_sorted[i][2]>>]

\* lines 230-234
ExistingEntriesSorted(preserving_entry_hashes, previous_entry_hashes, hash_to_previous_entries) ==
    LET existing_entries ==
            {<<Index(previous_entry_hashes, entry_hash), hash_to_previous_entries[entry_hash]>> :
                entry_hash \in preserving_entry_hashes}
    IN SortedByFirst(existing_entries)

\* the new entries put first
EntriesWithIds_new_first(existing_entries_sorted, new_entries_sorted) ==
    new_entries_sorted \o existing_entries_sorted

\* line 236
EntriesWithIds(existing_entries_sorted, new_entries_sorted) ==
    existing_entries_sorted \o new_entries_sorted

\* lines 188-238: the locals of the call when it returns
mark_entries_for_update(current_entries, previous_entries, key, deletion_filenames) ==
    LET current_entry_hashes == EntryHashes(current_entries, key)
        previous_entry_hashes == EntryHashes(previous_entries, key)
        deletion_entry_hashes == DeletionEntryHashes(previous_entries, key, deletion_filenames)
        hash_to_current_entries == HashToCurrentEntries(current_entries, key)
        hash_to_previous_entries == HashToCurrentEntries(previous_entries, key)
        new_entry_hashes == NewEntryHashes(current_entry_hashes, previous_entry_hashes)
        existing_entry_hashes == MarkExistingEntryHashes(current_entry_hashes, previous_entry_hashes)
        remaining_entry_hashes == RemainingEntryHashes(current_entry_hashes, previous_entry_hashes)
        to_delete_entry_hashes == MarkToDeleteEntryHashes(previous_entry_hashes, deletion_entry_hashes)
        preserving_entry_hashes ==
            PreservingEntryHashes(existing_entry_hashes, remaining_entry_hashes,
                                  previous_entry_hashes, deletion_entry_hashes,
                                  to_delete_entry_hashes, deletion_filenames)
        new_entries_sorted ==
            NewEntriesSorted(new_entry_hashes, current_entry_hashes, hash_to_current_entries)
        existing_entries_sorted ==
            ExistingEntriesSorted(preserving_entry_hashes, previous_entry_hashes,
                                  hash_to_previous_entries)
    IN [new_entry_hashes |-> new_entry_hashes,
        existing_entry_hashes |-> existing_entry_hashes,
        remaining_entry_hashes |-> remaining_entry_hashes,
        to_delete_entry_hashes |-> to_delete_entry_hashes,
        preserving_entry_hashes |-> preserving_entry_hashes,
        entries_with_ids |-> EntriesWithIds(existing_entries_sorted, new_entries_sorted)]

\* the arguments a caller passes for deletion_filenames: None or a set of files
MarkDeletionFilenames == {None} \cup SUBSET Files

InitMarker ==
    /\ deployment = [users |-> {"u1"}, file_types |-> {"org"}, unique |-> FALSE]
    /\ store = {}
    /\ dates = {}
    /\ runs = [p \in {1} |-> Idle]
    /\ chunker = NoChunker
    /\ migration = NoMigration
    /\ \E current_entries \in SeqsUpTo(MarkEntries, MaxMarkEntries),
          previous_entries \in SeqsUpTo(MarkEntries, MaxMarkEntries),
          deletion_filenames \in MarkDeletionFilenames :
            marker = [pc |-> "called", current_entries |-> current_entries,
                      previous_entries |-> previous_entries, key |-> "compiled",
                      deletion_filenames |-> deletion_filenames]

\* the call runs and returns entries_with_ids
MarkEntriesForUpdate ==
    /\ marker.pc = "called"
    /\ marker' = [pc |-> "returned", current_entries |-> marker.current_entries,
                  previous_entries |-> marker.previous_entries, key |-> marker.key,
                  deletion_filenames |-> marker.deletion_filenames,
                  locals |-> mark_entries_for_update(marker.current_entries, marker.previous_entries,
                                                     marker.key, marker.deletion_filenames)]
    /\ UNCHANGED <<deployment, store, dates, runs, chunker, migration>>

NextMarker == MarkEntriesForUpdate

SpecMarker == InitMarker /\ [][NextMarker]_vars

Returned == marker.pc = "returned"

CurrentHashSet == Range(EntryHashes(marker.current_entries, marker.key))

PreviousHashSet == Range(EntryHashes(marker.previous_entries, marker.key))

\* C11: the preserved hashes are the previous hashes less to_delete, whether
\* or not a deletion set is given; without one every previous entry is kept.
C11_PreservedIsPreviousLessDeleted ==
    Returned =>
        /\ marker.locals.preserving_entry_hashes =
              PreviousHashSet \ marker.locals.to_delete_entry_hashes
        /\ marker.locals.to_delete_entry_hashes = {} =>
              marker.locals.preserving_entry_hashes =
                  marker.locals.existing_entry_hashes \cup marker.locals.remaining_entry_hashes

\* C12 as stated: new, existing, remaining and to_delete contain every hash of
\* the current and previous lists, and each such hash lies in exactly one of
\* the four sets.
C12_FourSetsPartition ==
    Returned =>
        LET sets == <<marker.locals.new_entry_hashes, marker.locals.existing_entry_hashes,
                      marker.locals.remaining_entry_hashes, marker.locals.to_delete_entry_hashes>>
        IN \A h \in CurrentHashSet \cup PreviousHashSet :
              Cardinality({k \in 1..4 : h \in sets[k]}) = 1

\* C12, amended: new, existing and remaining contain every hash of the current
\* and previous lists, each hash in exactly one of the three; to_delete holds
\* previous hashes only, each of them also in existing or in remaining.
C12_ThreeSetsPartition ==
    Returned =>
        LET sets == <<marker.locals.new_entry_hashes, marker.locals.existing_entry_hashes,
                      marker.locals.remaining_entry_hashes>>
        IN /\ \A h \in CurrentHashSet \cup PreviousHashSet :
                 Cardinality({k \in 1..3 : h \in sets[k]}) = 1
           /\ sets[1] \cup sets[2] \cup sets[3] \subseteq CurrentHashSet \cup PreviousHashSet
           /\ marker.locals.to_delete_entry_hashes \subseteq PreviousHashSet
           /\ marker.locals.to_delete_entry_hashes \subseteq sets[2] \cup sets[3]

\* a call has returned whose four sets are all non-empty, with a hash to
\* delete among the existing ones and another among the remaining ones
C12_Witness ==
    /\ Returned
    /\ marker.locals.new_entry_hashes # {}
    /\ marker.locals.to_delete_entry_hashes \cap marker.locals.existing_entry_hashes # {}
    /\ marker.locals.to_delete_entry_hashes \cap marker.locals.remaining_entry_hashes # {}

\* the part of entries_with_ids that holds the preserved entries
PreservedPart ==
    SubSeq(marker.locals.entries_with_ids, 1, Cardinality(marker.locals.preserving_entry_hashes))

\* the part of entries_with_ids that holds the new entries
NewPart ==
    SubSeq(marker.locals.entries_with_ids, Cardinality(marker.locals.preserving_entry_hashes) + 1,
           Len(marker.locals.entries_with_ids))

\* the entries of the pairs are those of list, in increasing order of position
InListOrder(pairs, list) ==
    \E pos \in [DOMAIN pairs -> DOMAIN list] :
        /\ \A i \in DOMAIN pairs : list[pos[i]] = pairs[i][2]
        /\ \A i, j \in DOMAIN pairs : i < j => pos[i] < pos[j]

\* C13 as stated: the preserved entries come first, in increasing order of
\* their index in the previous list, each with that index as identifier; the
\* new entries follow in increasing order of their index in the current list,
\* each with the identifier -1.
C13_OrderedByEntryIndex ==
    Returned =>
        /\ Len(marker.locals.entries_with_ids) =
              Cardinality(marker.locals.preserving_entry_hashes)
                  + Cardinality(marker.locals.new_entry_hashes)
        /\ \A i \in DOMAIN PreservedPart :
              /\ PreservedPart[i][1] \in 0..(Len(marker.previous_entries) - 1)
              /\ marker.previous_entries[PreservedPart[i][1] + 1] = PreservedPart[i][2]
        /\ \A i, j \in DOMAIN PreservedPart : i < j => PreservedPart[i][1] < PreservedPart[j][1]
        /\ \A i \in DOMAIN NewPart : NewPart[i][1] = -1
        /\ InListOrder(NewPart, marker.current_entries)

\* the hashes of the pairs are those of the set, each once, in increasing
\* order of the first position of the hash in list
InFirstIndexOrder(pairs, hashes, list) ==
    /\ {hash_func(marker.key, pairs[i][2]) : i \in DOMAIN pairs} = hashes
    /\ Len(pairs) = Cardinality(hashes)
    /\ \A i \in DOMAIN pairs : pairs[i][2] \in Range(list)
    /\ \A i, j \in DOMAIN pairs :
          i < j => Index(EntryHashes(list, marker.key), hash_func(marker.key, pairs[i][2]))
                      < Index(EntryHashes(list, marker.key), hash_func(marker.key, pairs[j][2]))

\* C13, amended: the preserved entries come first, one per preserved hash, in
\* increasing order of the first index of their hash in the previous list,
\* each with that index as identifier; the new entries follow, one per new
\* hash, in increasing order of the first index of their hash in the current
\* list, each with the identifier -1.  The entry of a hash is the last entry
\* of its list with that hash.
C13_OrderedByHashIndex ==
    Returned =>
        /\ InFirstIndexOrder(PreservedPart, marker.locals.preserving_entry_hashes,
                             marker.previous_entries)
        /\ \A i \in DOMAIN PreservedPart :
              /\ PreservedPart[i][1] =
                    Index(EntryHashes(marker.previous_entries, marker.key),
                          hash_func(marker.key, PreservedPart[i][2]))
              /\ \A k \in DOMAIN marker.previous_entries :
                    hash_func(marker.key, marker.previous_entries[k])
                        = hash_func(marker.key, PreservedPart[i][2])
                    => \E m \in k..Len(marker.previous_entries) :
                          marker.previous_entries[m] = PreservedPart[i][2]
        /\ InFirstIndexOrder(NewPart, marker.locals.new_entry_hashes, marker.current_entries)
        /\ \A i \in DOMAIN NewPart : NewPart[i][1] = -1
        /\ marker.locals.preserving_entry_hashes \cap marker.locals.new_entry_hashes = {}

\* a call has returned two preserved entries and a new one, the previous
\* list not being in the order of the current one
C13_Witness ==
    /\ Returned
    /\ Len(PreservedPart) = 2
    /\ Len(NewPart) >= 1
    /\ marker.current_entries[1] = marker.previous_entries[2]

----------------------------------------------------------------------------
(* Properties of split_entries_by_max_tokens *)

\* compiled texts without a space at either end
StrippedTexts == {c \in CompiledTexts : c = <<>> \/ (c[1] # " " /\ c[Len(c)] # " ")}

\* calls whose entries differ in their compiled text only: the heading of an
\* entry has no part in its corpus_id
InitCorpusIds ==
    /\ deployment = [users |-> {"u1"}, file_types |-> {"org"}, unique |-> FALSE]
    /\ store = {}
    /\ dates = {}
    /\ runs = [p \in {1} |-> Idle]
    /\ marker = NoMarker
    /\ migration = NoMigration
    /\ \E entries \in SeqsUpTo({ChunkerEntry(c, <<"h">>) : c \in StrippedTexts}, MaxChunkerEntries),
          max_tokens \in 1..MaxMaxTokens, max_word_length \in 1..MaxMaxWordLength :
            chunker = [pc |-> "called", entries |-> entries, max_tokens |-> max_tokens,
                       max_word_length |-> max_word_length, chunked_entries |-> <<>>]

SpecCorpusIds == InitCorpusIds /\ [][NextChunker]_vars

\* the number of chunks the i-th input entry is split into
ChunkCount(i) ==
    LET n == Len(CompiledEntryWords(chunker.entries[i], chunker.max_word_length))
    IN (n + chunker.max_tokens - 1) \div chunker.max_tokens

\* the number of chunks of the input entries before the i-th
RECURSIVE ChunksBefore(_)
ChunksBefore(i) == IF i <= 1 THEN 0 ELSE ChunksBefore(i - 1) + ChunkCount(i - 1)

\* the input entry the k-th returned chunk was made from
Origin(k) ==
    CHOOSE i \in DOMAIN chunker.entries : ChunksBefore(i) < k /\ k <= ChunksBefore(i) + ChunkCount(i)

\* C14: two entries split_entries_by_max_tokens returns carry the same
\* corpus_id exactly when they are chunks of the same input entry.
C14_CorpusIdPerEntry ==
    chunker.pc = "returned" =>
        /\ Len(chunker.chunked_entries) = ChunksBefore(Len(chunker.entries) + 1)
        /\ \A k, l \in DOMAIN chunker.chunked_entries :
              (chunker.chunked_entries[k].corpus_id = chunker.chunked_entries[l].corpus_id)
                  <=> (Origin(k) = Origin(l))

\* a call has returned for two identical input entries of two chunks each
C14_Witness ==
    /\ chunker.pc = "returned"
    /\ Len(chunker.entries) = 2
    /\ chunker.entries[1] = chunker.entries[2]
    /\ ChunkCount(1) = 2
    /\ Len(chunker.chunked_entries) = 4
    /\ chunker.chunked_entries[1].corpus_id = chunker.chunked_entries[2].corpus_id
    /\ chunker.chunked_entries[2].corpus_id # chunker.chunked_entries[3].corpus_id

----------------------------------------------------------------------------
(* Further properties of update_embeddings *)

\* C15: no call of the embedding model passes more texts than one batch holds.
C15_EmbedCallsBatched ==
    \A p \in DOMAIN runs :
        runs[p].pc \in Working \cup {"done"} =>
            \A i \in DOMAIN runs[p].embed_calls :
                Cardinality(runs[p].embed_calls[i]) <= BatchSize

\* the rows of st with the owner, content type and hash of row r
SameTriple(st, r) ==
    {x \in st : x.user = r.user /\ x.file_type = r.file_type /\ x.hashed_value = r.hashed_value}

\* C16: when bulk_create hits a row whose (owner, content type, hash) the
\* table already has, the record is skipped and the call goes on: it is not
\* aborted, and what it inserts leaves the hashes unique.
C16_DuplicateInsertIsSkipped ==
    [][\A p \in DOMAIN runs :
          (runs[p].pc = "create" /\ runs'[p].pc # "create" /\ deployment.unique)
              => /\ runs'[p].pc = "create_dates"
                 /\ runs'[p].file_idx = runs[p].file_idx
                 /\ \A r \in store' \ store : SameTriple(store', r) = {r}]_vars

\* the hashes the calls under way beside p, for its owner and content type,
\* have sent to the embedding model
EmbeddedBeside(p) ==
    UNION {Embedded(runs[q]) :
              q \in {x \in DOMAIN runs \ {p} :
                        /\ runs[x].pc \in Working
                        /\ runs[x].user = runs[p].user
                        /\ runs[x].file_type = runs[p].file_type}}

DatesOf(dt, r) == {d.date : d \in {x \in dt : x.embeddings = r.id}}

\* C17: whenever no call is in the middle of its work, every stored row has
\* exactly the date rows that extract_dates yields for its raw text, and every
\* date row belongs to a stored row.
C17_DatesMatchRaw ==
    (\A p \in DOMAIN runs : runs[p].pc \notin Working) =>
        /\ \A r \in store : DatesOf(dates, r) = extract_dates(r.raw)
        /\ \A d \in dates : d.embeddings \in Ids(store)

\* C18: when a call has returned, every row of the owner under the file path
\* of a current entry has a hash of that file's current entries; the stale-hash
\* query of a file is made only once the creation loop has gone through all
\* files, when every current hash is stored, and no row is created after it.
C18_NoStaleRowsAfterRun ==
    /\ [](\A p \in DOMAIN runs :
            /\ Done(p) =>
                  \A f \in Range(runs[p].files) :
                      Hashes(RowsAt(store, runs[p].user, f)) \subseteq runs[p].hashes_by_file[f]
            /\ runs[p].pc = "removed" =>
                  /\ runs[p].file_idx = Len(runs[p].files)
                  /\ runs[p].zipped_vals = {}
                  /\ runs[p].new_embeddings = {}
                  /\ runs[p].removed_idx = 1 =>
                        CurrentHashes(runs[p]) \subseteq
                            Hashes(RowsOfType(store, runs[p].user, runs[p].file_type)))
    /\ [][\A p \in DOMAIN runs :
            (runs[p].pc = "removed" /\ Steps(p)) =>
                /\ runs'[p].pc \in {"removed", "deleting", "done"}
                /\ store' \subseteq store]_vars

\* a call over two files has returned that created a row for one file and
\* deleted a stale row of the other
C18_Witness ==
    \E p \in DOMAIN runs :
        /\ Done(p)
        /\ ~runs[p].regenerate
        /\ runs[p].deletion_filenames = None
        /\ Len(runs[p].files) = 2
        /\ runs[p].num_new_embeddings = 1
        /\ runs[p].num_deleted_embeddings = 1
        /\ \E r \in store \ runs[p].ghost.store0 : r.file_path = runs[p].files[2]
        /\ \E r \in runs[p].ghost.store0 \ store :
              /\ r.file_path = runs[p].files[1]
              /\ r.hashed_value \notin CurrentHashes(runs[p])

----------------------------------------------------------------------------
(* migrate_processor_conversation_schema                                   *)
(* (src/src/khoj/migrations/migrate_processor_config_openai.py).  A yaml   *)
(* mapping is a function from its keys to their values.                    *)

\* Python's None as the value of a key
null == "null"

\* dict.get(key, None)
Get(dict, key) == IF key \in DOMAIN dict THEN dict[key] ELSE null

\* the mapping with one key set
WithKey(dict, key, value) ==
    [k \in DOMAIN dict \cup {key} |-> IF k = key THEN value ELSE dict[k]]

\* processor.conversation of a khoj.yml: any of the keys of the old format,
\* with or without enable-local-llm
Conversations ==
    UNION {
      {[k \in keys |->
          CASE k = "chat-model" -> "gpt-3.5-turbo"
            [] k = "openai-api-key" -> "sk-secret-key"
            [] k = "conversation-logfile" -> "conversation_logs.json"
            [] k = "model" -> "text-davinci-003"
            [] k = "enable-local-llm" -> local] : local \in BOOLEAN}
      : keys \in SUBSET {"chat-model", "openai-api-key", "conversation-logfile",
                         "model", "enable-local-llm"}}

\* the khoj.yml files: without processor, without processor.conversation, or with one
ConfigFiles ==
    {[app |-> [telemetry |-> TRUE]]}
    \cup {[app |-> [telemetry |-> TRUE], processor |-> [other |-> "x"]]}
    \cup {[app |-> [telemetry |-> TRUE], processor |-> [conversation |-> c]] : c \in Conversations}

\* raw_config with processor.conversation replaced
WithConversation(raw_config, conversation) ==
    [raw_config EXCEPT !.processor = [raw_config.processor EXCEPT !.conversation = conversation]]

\* lines 49-59: the mapping that replaces processor.conversation
NewConversation(conversation) ==
    [k \in {"openai-ai-model", "conversation-logfile"} |->
        CASE k = "openai-ai-model" ->
                 [c \in {"chat-model", "openai-api-key"} |-> Get(conversation, c)]
          [] k = "conversation-logfile" -> Get(conversation, "conversation-logfile")]

InitMigration ==
    /\ deployment = [users |-> {"u1"}, file_types |-> {"org"}, unique |-> FALSE]
    /\ store = {}
    /\ dates = {}
    /\ runs = [p \in {1} |-> Idle]
    /\ chunker = NoChunker
    /\ marker = NoMarker
    /\ \E config_file \in ConfigFiles :
          migration = [pc |-> "called", config_file |-> config_file, original |-> config_file,
                       raw_config |-> config_file, saves |-> 0]

\* lines 37-42: load the file; nothing to migrate without processor.conversation
LoadConfig ==
    /\ migration.pc = "called"
    /\ migration' =
          [migration EXCEPT
              !.raw_config = migration.config_file,
              !.pc = IF "processor" \notin DOMAIN migration.config_file
                        \/ "conversation" \notin DOMAIN migration.config_file.processor
                     THEN "returned" ELSE "add_flag"]
    /\ UNCHANGED <<deployment, store, dates, runs, chunker, marker>>

\* lines 44-47: add enable-local-llm and save
AddEnableLocalLlm ==
    /\ migration.pc = "add_flag"
    /\ LET conversation == migration.raw_config.processor.conversation
           raw_config == WithConversation(migration.raw_config,
                                          WithKey(conversation, "enable-local-llm", FALSE))
       IN migration' =
             IF "enable-local-llm" \notin DOMAIN conversation
             THEN [migration EXCEPT !.pc = "move_keys", !.raw_config = raw_config,
                                    !.config_file = raw_config, !.saves = migration.saves + 1]
             ELSE [migration EXCEPT !.pc = "move_keys"]
    /\ UNCHANGED <<deployment, store, dates, runs, chunker, marker>>

\* lines 49-61: move chat-model and openai-api-key under openai-ai-model and save
MoveOpenaiKeys ==
    /\ migration.pc = "move_keys"
    /\ LET conversation == migration.raw_config.processor.conversation
           current_open_ai_api_key == Get(conversation, "openai-api-key")
           current_chat_model == Get(conversation, "chat-model")
           raw_config == WithConversation(migration.raw_config, NewConversation(conversation))
       IN migration' =
             IF current_open_ai_api_key = null /\ current_chat_model = null
             THEN [migration EXCEPT !.pc = "returned"]
             ELSE [migration EXCEPT !.pc = "returned", !.raw_config = raw_config,
                                    !.config_file = raw_config, !.saves = migration.saves + 1]
    /\ UNCHANGED <<deployment, store, dates, runs, chunker, marker>>

NextMigration ==
    \/ LoadConfig
    \/ AddEnableLocalLlm
    \/ MoveOpenaiKeys

SpecMigration == InitMigration /\ [][NextMigration]_vars

\* the file is in the old format: chat-model and openai-api-key directly under
\* processor.conversation
OldFormat(config_file) ==
    /\ "processor" \in DOMAIN config_file
    /\ "conversation" \in DOMAIN config_file.processor
    /\ {"chat-model", "openai-api-key"} \subseteq DOMAIN config_file.processor.conversation

\* C20: after the migration of a file in the old format, the saved
\* processor.conversation holds openai-ai-model with the former chat-model and
\* openai-api-key, the former conversation-logfile, and enable-local-llm false.
C20_MigratedToNewFormat ==
    (migration.pc = "returned" /\ OldFormat(migration.original)
        /\ "enable-local-llm" \notin DOMAIN migration.original.processor.conversation) =>
        LET old == migration.original.processor.conversation
            new == migration.config_file.processor.conversation
        IN /\ DOMAIN new = {"openai-ai-model", "conversation-logfile", "enable-local-llm"}
           /\ new["openai-ai-model"] =
                 [c \in {"chat-model", "openai-api-key"} |-> old[c]]
           /\ new["conversation-logfile"] = Get(old, "conversation-logfile")
           /\ new["enable-local-llm"] = FALSE

----------------------------------------------------------------------------
(* Properties of update_embeddings: what a call keeps and what it removes *)

\* the current hashes of the files the call is not asked to delete
KeptCurrentHashes(r) ==
    UNION {r.hashes_by_file[f] :
              f \in {g \in Range(r.files) :
                        r.deletion_filenames = None \/ g \notin r.deletion_filenames}}

\* C21: when a call has returned, every hash of a current entry whose file is
\* not in deletion_filenames has a row of the owner and content type, also
\* when the hash was stored under another file path before the call.
C21_CurrentHashesStored ==
    \A p \in DOMAIN runs :
        Done(p) =>
            KeptCurrentHashes(runs[p]) \subseteq
                Hashes(RowsOfType(store, runs[p].user, runs[p].file_type))

\* the rows of the owner of call r that belong to another content type
RowsOfOtherTypes(st, r) == {x \in st : x.user = r.user /\ x.file_type # r.file_type}

\* C22: neither the stale-hash pass nor the deletion of a file path (nor the
\* wipe of regenerate) removes a row of the owner that belongs to another
\* content type than the one the call is for.
C22_DeletesOwnTypeOnly ==
    [][\A p \in DOMAIN runs :
          (Steps(p) /\ runs'[p].pc \in Working \cup {"done"})
              => RowsOfOtherTypes(store, runs'[p]) \subseteq store']_vars

\* the positions of entries_with_ids whose entry has hash h
PositionsOf(h) ==
    {i \in DOMAIN marker.locals.entries_with_ids :
        hash_func(marker.key, marker.locals.entries_with_ids[i][2]) = h}

\* C23: every hash of the current list occurs exactly once in the list
\* mark_entries_for_update returns, and no hash occurs twice in it.
C23_CurrentHashesOnce ==
    Returned =>
        /\ \A h \in CurrentHashSet : Cardinality(PositionsOf(h)) = 1
        /\ \A h \in PreviousHashSet : Cardinality(PositionsOf(h)) <= 1

====
